---- MODULE Spec2Model ----
(***************************************************************************)
(* Content-addressed media cache (media_cache.py) and the ingestion        *)
(* reconciler (manage_data.py) of social-tui, as a state machine.          *)
(*                                                                         *)
(* A URL is a record of its path and query, each a sequence of tokens: a   *)
(* substring test `ext in path` of the code is a membership test on the    *)
(* tokens.  File contents are opaque byte values; md5 is an injective map  *)
(* from the byte values of the model to digests.                           *)
(***************************************************************************)
EXTENDS Naturals, Integers, Sequences, FiniteSets, TLC

\* ------------------------------------------------------------------ bounds

\* Largest number of URLs handed to one download_multiple_media call.
MaxBatch == 2

\* Largest max_workers value tried.
MaxWorkers == 2

\* Messages the websocket relay receives in a run.
MaxMessages == 2

\* ------------------------------------------------------------ byte values

None == "None"

\* The byte strings a server may deliver.
Bytes == {"b1", "b2"}

\* What a file holds right after open(path, 'wb') and before f.write(data).
Truncated == "b0"

\* Bytes left in a file by an external mutation.
Junk == "bx"

Contents == Bytes \cup {Truncated, Junk}

\* hashlib.md5(data).hexdigest(); no two byte values of the model collide.
calculate_md5_from_bytes(data) ==
    CASE data = "b1" -> "d1"
      [] data = "b2" -> "d2"
      [] data = "b0" -> "d0"
      [] data = "bx" -> "dx"

\* len(data) / st_size of a file holding data.
ByteLen(data) ==
    CASE data = "b1" -> 3
      [] data = "b2" -> 5
      [] data = "b0" -> 0
      [] data = "bx" -> 4

\* ------------------------------------------------------------ type tables

CACHE_DIRS == [image |-> "images", video |-> "videos", document |-> "documents"]

MIME_TO_MEDIA_TYPE ==
    [x \in {"image/jpeg", "image/jpg", "image/png", "image/gif", "image/webp",
            "video/mp4", "video/webm", "video/quicktime", "application/pdf"} |->
        CASE x \in {"image/jpeg", "image/jpg", "image/png", "image/gif", "image/webp"}
               -> "image"
          [] x \in {"video/mp4", "video/webm", "video/quicktime"} -> "video"
          [] x = "application/pdf" -> "document"]

\* The keys of EXT_TO_MEDIA_TYPE in insertion order (the order of the scan).
EXT_KEYS == <<".jpg", ".jpeg", ".png", ".gif", ".webp", ".mp4", ".webm", ".mov", ".pdf">>

EXT_TO_MEDIA_TYPE ==
    [x \in {EXT_KEYS[i] : i \in 1..Len(EXT_KEYS)} |->
        CASE x \in {".jpg", ".jpeg", ".png", ".gif", ".webp"} -> "image"
          [] x \in {".mp4", ".webm", ".mov"} -> "video"
          [] x = ".pdf" -> "document"]

\* str.lower() on one token.
Lower(tok) ==
    CASE tok = ".JPG" -> ".jpg"
      [] tok = ".PNG" -> ".png"
      [] tok = ".MP4" -> ".mp4"
      [] OTHER -> tok

\* `ext in path` for the lower-cased path.
PathHas(path, ext) == \E i \in 1..Len(path) : Lower(path[i]) = ext

\* get_extension_from_url returning the last key found instead of the first.
get_extension_last_key(url) ==
    LET hits == {i \in 1..Len(EXT_KEYS) : PathHas(url.path, EXT_KEYS[i])}
    IN  IF hits = {} THEN ".bin"
        ELSE EXT_KEYS[CHOOSE i \in hits : \A j \in hits : i >= j]

\* get_extension_from_url: the first key of EXT_TO_MEDIA_TYPE found in
\* urlparse(url).path.lower(), else '.bin'.
get_extension_from_url(url) ==
    LET hits == {i \in 1..Len(EXT_KEYS) : PathHas(url.path, EXT_KEYS[i])}
    IN  IF hits = {} THEN ".bin"
        ELSE EXT_KEYS[CHOOSE i \in hits : \A j \in hits : i <= j]

\* detect_media_type asking the URL extension before the MIME table.
detect_media_type_url_first(url, mime_type) ==
    LET ext == get_extension_from_url(url)
    IN  IF ext \in DOMAIN EXT_TO_MEDIA_TYPE THEN EXT_TO_MEDIA_TYPE[ext]
        ELSE IF mime_type # None /\ mime_type \in DOMAIN MIME_TO_MEDIA_TYPE
             THEN MIME_TO_MEDIA_TYPE[mime_type]
             ELSE "image"

\* detect_media_type: MIME table first, then the URL extension, then 'image'.
detect_media_type(url, mime_type) ==
    IF mime_type # None /\ mime_type \in DOMAIN MIME_TO_MEDIA_TYPE
    THEN MIME_TO_MEDIA_TYPE[mime_type]
    ELSE LET ext == get_extension_from_url(url)
         IN  IF ext \in DOMAIN EXT_TO_MEDIA_TYPE THEN EXT_TO_MEDIA_TYPE[ext]
             ELSE "image"

\* get_media_cache_path: CACHE_DIRS.get(media_type, CACHE_DIRS['image']) / md5+ext.
get_media_cache_path(media_type, md5_sum, extension) ==
    [dir  |-> IF media_type \in DOMAIN CACHE_DIRS THEN CACHE_DIRS[media_type]
              ELSE CACHE_DIRS["image"],
     md5  |-> md5_sum,
     ext  |-> extension]

NoPath == [dir |-> None, md5 |-> None, ext |-> None]

\* ------------------------------------------------------------ the network

\* The URLs of the model.  UrlA and UrlC name the same bytes with the same
\* extension token, UrlB the same bytes with another token, UrlV other bytes
\* served without a Content-Type.
UrlA == [path |-> <<"/a", ".jpg">>, query |-> <<>>]
UrlB == [path |-> <<"/b", ".PNG">>, query |-> <<>>]
UrlC == [path |-> <<"/c", ".jpg">>, query |-> <<>>]
UrlV == [path |-> <<"/v", ".mp4">>, query |-> <<>>]

Urls == {UrlA, UrlB, UrlC, UrlV}

\* The empty URL (and a missing 'url' key): falsy in the code.
NoUrl == [path |-> <<>>, query |-> <<>>]

\* The body a server sends for a URL.
ServerBody(url) == IF url = UrlV THEN "b2" ELSE "b1"

\* The first token of the path names the resource.
Resource(url) == IF url.path = <<>> THEN None ELSE url.path[1]

\* The Content-Type header a server sends, split at ';' ("" when absent).
ServerContentType(url) ==
    CASE url = UrlA -> <<"image/jpeg">>
      [] url = UrlB -> <<"image/png", "charset=binary">>
      [] url = UrlC -> <<"image/jpeg">>
      [] Resource(url) = "/png" -> <<"image/png">>
      [] Resource(url) = "/mp4v" -> <<"video/mp4", "codecs=avc1">>
      [] Resource(url) = "/html" -> <<"text/html", "charset=utf-8">>
      [] OTHER -> <<"">>

\* download_media: (response.read(), Content-Type up to ';', or None if empty).
download_media(url) ==
    LET mime_type == ServerContentType(url)[1]
    IN  [data |-> ServerBody(url),
         mime_type |-> IF mime_type # "" THEN mime_type ELSE None]

\* ------------------------------------------------------------------ state

VARIABLES
    disk,   \* the cache tree: cache path -> bytes of the file at that path
    disk0,  \* the cache tree as it was when the call in progress started
    tasks,  \* the download_and_cache_media invocations of the call in progress
    call,   \* the top-level media_cache call in progress, or the last one made
    last,   \* what happened just before that call: the previous call, or a mutation
    store,  \* the rows of the post_media table
    rec     \* the extract_and_store_media calls: position, locals and returned stats

vars == <<disk, disk0, tasks, call, last, store, rec>>

\* One invocation of download_and_cache_media(media_url, media_type): its
\* position (pc), its locals, and what it did.
NewTask(url, media_type, pc) ==
    [media_url  |-> url,
     media_type |-> media_type,
     pc         |-> pc,
     err        |-> None,       \* the exception it raised
     data       |-> None,
     mime_type  |-> None,
     md5_sum    |-> None,
     extension  |-> None,
     cache_path |-> NoPath,
     fh         |-> "closed",   \* its file object: closed, open, or open on an unlinked file
     file_size  |-> 0,
     hit        |-> FALSE,      \* returned from the "already cached" branch
     fetched    |-> 0,          \* calls of download_media
     wrote      |-> 0,          \* calls of open(cache_path, 'wb')
     unlinked   |-> 0]          \* calls of cache_path.unlink()

Exists(path) == path \in DOMAIN disk

\* The tree with `path` holding `data`.
WithFile(path, data) ==
    [q \in DOMAIN disk \cup {path} |-> IF q = path THEN data ELSE disk[q]]

\* The tree without `path`.
WithoutFile(path) == [q \in DOMAIN disk \ {path} |-> disk[q]]

\* calculate_md5(file_path) of an existing file.
calculate_md5(path) == calculate_md5_from_bytes(disk[path])

Raise(t, e) == [tasks EXCEPT ![t].pc = "failed", ![t].err = e]

At(t, pc) == t \in DOMAIN tasks /\ tasks[t].pc = pc

\* ------------------------------------------- download_and_cache_media steps

\* Lines 276-289: the fetch succeeds; digest, type, extension and path follow.
Download(t) ==
    /\ At(t, "download")
    /\ LET r   == download_media(tasks[t].media_url)
           md5 == calculate_md5_from_bytes(r.data)
           mt  == IF tasks[t].media_type = None
                  THEN detect_media_type(tasks[t].media_url, r.mime_type)
                  ELSE tasks[t].media_type
           ext == get_extension_from_url(tasks[t].media_url)
       IN  tasks' = [tasks EXCEPT ![t].pc = "exists",
                                  ![t].fetched = @ + 1,
                                  ![t].data = r.data,
                                  ![t].mime_type = r.mime_type,
                                  ![t].md5_sum = md5,
                                  ![t].media_type = mt,
                                  ![t].extension = ext,
                                  ![t].cache_path = get_media_cache_path(mt, md5, ext)]
    /\ UNCHANGED <<disk, disk0, call, last, store, rec>>

\* DownloadFail with the exception swallowed: the call returns.
DownloadFailSwallowed(t) ==
    /\ At(t, "download")
    /\ tasks' = [tasks EXCEPT ![t].pc = "return", ![t].err = "URLError",
                              ![t].fetched = @ + 1]
    /\ UNCHANGED <<disk, disk0, call, last, store, rec>>

\* DownloadFail with one more attempt after the first failure.
DownloadFailRetried(t) ==
    /\ At(t, "download")
    /\ tasks' = IF tasks[t].fetched = 0
                THEN [tasks EXCEPT ![t].fetched = @ + 1]
                ELSE [Raise(t, "URLError") EXCEPT ![t].fetched = @ + 1]
    /\ UNCHANGED <<disk, disk0, call, last, store, rec>>

\* Line 276 raising (timeout, DNS failure, HTTP error); lines 341-343 re-raise.
DownloadFail(t) ==
    /\ At(t, "download")
    /\ tasks' = [Raise(t, "URLError") EXCEPT ![t].fetched = @ + 1]
    /\ UNCHANGED <<disk, disk0, call, last, store, rec>>

\* CheckExists without the "already cached" test of line 292: every call writes.
CheckExistsNever(t) ==
    /\ At(t, "exists")
    /\ tasks' = [tasks EXCEPT ![t].pc = "open"]
    /\ UNCHANGED <<disk, disk0, call, last, store, rec>>

\* Line 292: cache_path.exists().
CheckExists(t) ==
    /\ At(t, "exists")
    /\ tasks' = [tasks EXCEPT ![t].pc =
                    IF Exists(tasks[t].cache_path) THEN "verify_exists" ELSE "open"]
    /\ UNCHANGED <<disk, disk0, call, last, store, rec>>

\* Line 178 (called from 295): verify_cached_media returns False at once when
\* the file is not there.
VerifyExists(t) ==
    /\ At(t, "verify_exists")
    /\ tasks' = [tasks EXCEPT ![t].pc =
                    IF Exists(tasks[t].cache_path) THEN "verify_md5" ELSE "unlink"]
    /\ UNCHANGED <<disk, disk0, call, last, store, rec>>

\* verify_cached_media without the digest comparison of line 183.
verify_exists_only(t) == Exists(tasks[t].cache_path)

\* Lines 181-186: the digest of the file is compared; an exception while
\* reading (the file is gone) is caught and gives False.
verify_cached_media(t) ==
    /\ Exists(tasks[t].cache_path)
    /\ calculate_md5(tasks[t].cache_path) = tasks[t].md5_sum

\* VerifyMd5 taking every cached file for stale: the file is deleted and rewritten.
VerifyMd5AlwaysStale(t) ==
    /\ At(t, "verify_md5")
    /\ tasks' = [tasks EXCEPT ![t].pc = "unlink"]
    /\ UNCHANGED <<disk, disk0, call, last, store, rec>>

\* Line 295: the branch on verify_cached_media(cache_path, md5_sum).
VerifyMd5(t) ==
    /\ At(t, "verify_md5")
    /\ tasks' = [tasks EXCEPT ![t].pc =
                    IF verify_cached_media(t) THEN "stat" ELSE "unlink"]
    /\ UNCHANGED <<disk, disk0, call, last, store, rec>>

\* Line 297: cache_path.unlink().  A missing file raises FileNotFoundError.
\* File objects other invocations hold on the file keep the unlinked file.
Unlink(t) ==
    /\ At(t, "unlink")
    /\ LET p == tasks[t].cache_path
       IN  IF Exists(p)
           THEN /\ disk' = WithoutFile(p)
                /\ tasks' = [s \in DOMAIN tasks |->
                               IF s = t
                               THEN [tasks[s] EXCEPT !.pc = "open", !.unlinked = @ + 1]
                               ELSE IF tasks[s].fh = "open" /\ tasks[s].cache_path = p
                                    THEN [tasks[s] EXCEPT !.fh = "orphan"]
                                    ELSE tasks[s]]
           ELSE /\ disk' = disk
                /\ tasks' = Raise(t, "FileNotFoundError")
    /\ UNCHANGED <<disk0, call, last, store, rec>>

\* Stat with the hit branch writing the downloaded bytes over the cached file.
StatRewrites(t) ==
    /\ At(t, "stat")
    /\ disk' = WithFile(tasks[t].cache_path, tasks[t].data)
    /\ tasks' = [tasks EXCEPT ![t].pc = "return", ![t].hit = TRUE,
                              ![t].wrote = @ + 1,
                              ![t].file_size = ByteLen(tasks[t].data)]
    /\ UNCHANGED <<disk0, call, last, store, rec>>

\* Lines 300-301: cache_path.stat().st_size; get_image_dimensions swallows its
\* own errors.
Stat(t) ==
    /\ At(t, "stat")
    /\ LET p == tasks[t].cache_path
       IN  tasks' = IF Exists(p)
                    THEN [tasks EXCEPT ![t].pc = "return", ![t].hit = TRUE,
                                       ![t].file_size = ByteLen(disk[p])]
                    ELSE Raise(t, "FileNotFoundError")
    /\ UNCHANGED <<disk, disk0, call, last, store, rec>>

\* Line 317: open(cache_path, 'wb') creates the file or truncates it.
OpenFile(t) ==
    /\ At(t, "open")
    /\ disk' = WithFile(tasks[t].cache_path, Truncated)
    /\ tasks' = [tasks EXCEPT ![t].pc = "write", ![t].fh = "open", ![t].wrote = @ + 1]
    /\ UNCHANGED <<disk0, call, last, store, rec>>

\* Line 317 raising OSError (permissions, no space): nothing is created.
OpenFail(t) ==
    /\ At(t, "open")
    /\ tasks' = Raise(t, "OSError")
    /\ UNCHANGED <<disk, disk0, call, last, store, rec>>

\* Lines 318-324: f.write(data) and the close; file_size = len(data).  A file
\* object on an unlinked file writes to that file, not to the path.
WriteFile(t) ==
    /\ At(t, "write")
    /\ disk' = IF tasks[t].fh = "open"
               THEN WithFile(tasks[t].cache_path, tasks[t].data)
               ELSE disk
    /\ tasks' = [tasks EXCEPT ![t].pc = "return", ![t].fh = "closed",
                              ![t].file_size = ByteLen(tasks[t].data)]
    /\ UNCHANGED <<disk0, call, last, store, rec>>

\* Line 318 raising OSError: the file stays as the open left it.
WriteFail(t) ==
    /\ At(t, "write")
    /\ tasks' = [Raise(t, "OSError") EXCEPT ![t].fh = "closed"]
    /\ UNCHANGED <<disk, disk0, call, last, store, rec>>

\* Lines 303-313 and 326-339: the return of the result dictionary.
Finish(t) ==
    /\ At(t, "return")
    /\ tasks' = [tasks EXCEPT ![t].pc = "done"]
    /\ UNCHANGED <<disk, disk0, call, last, store, rec>>

\* The dictionary a finished invocation returned.
Result(t) ==
    [md5_sum    |-> tasks[t].md5_sum,
     local_path |-> tasks[t].cache_path,
     file_size  |-> tasks[t].file_size,
     mime_type  |-> tasks[t].mime_type,
     media_type |-> tasks[t].media_type,
     extension  |-> tasks[t].extension,
     url        |-> tasks[t].media_url]

PutStep(t) ==
    \/ Download(t)
    \/ DownloadFail(t)
    \/ CheckExists(t)
    \/ VerifyExists(t)
    \/ VerifyMd5(t)
    \/ Unlink(t)
    \/ Stat(t)
    \/ OpenFile(t)
    \/ OpenFail(t)
    \/ WriteFile(t)
    \/ WriteFail(t)
    \/ Finish(t)

\* -------------------------------------------------------- top-level calls

NoCall ==
    [kind        |-> "none",
     status      |-> "idle",     \* idle, running, returned, raised
     urls        |-> <<>>,
     media_type  |-> None,
     max_workers |-> 0,
     results     |-> <<>>,       \* what the call returned
     collected   |-> {},         \* the futures as_completed has yielded
     logged      |-> 0]          \* "Failed to download" lines logged

NoLast ==
    [kind |-> "none", url |-> NoUrl, media_type |-> None, path |-> NoPath,
     ok |-> FALSE, md5_sum |-> None, fetched |-> 0, wrote |-> 0, hit |-> FALSE]

\* What is remembered of a finished call when the next one starts.
Summary ==
    IF call.kind = "put"
    THEN [kind |-> "put", url |-> tasks[1].media_url, media_type |-> call.media_type,
          path |-> tasks[1].cache_path, ok |-> call.status = "returned",
          md5_sum |-> tasks[1].md5_sum, fetched |-> tasks[1].fetched,
          wrote |-> tasks[1].wrote, hit |-> tasks[1].hit]
    ELSE IF call.kind = "none" THEN last
    ELSE NoLast

Idle == call.status # "running"

\* A caller invokes download_and_cache_media(url, media_type) directly.
PutCall(url, media_type) ==
    /\ Idle
    /\ call' = [NoCall EXCEPT !.kind = "put", !.status = "running",
                              !.urls = <<url>>, !.media_type = media_type]
    /\ tasks' = <<NewTask(url, media_type, "download")>>
    /\ last' = Summary
    /\ disk0' = disk
    /\ UNCHANGED <<disk, store, rec>>

\* The direct call ends: the dictionary is returned or the exception raised.
PutReturn ==
    /\ call.kind = "put" /\ call.status = "running"
    /\ tasks[1].pc \in {"done", "failed"}
    /\ call' = IF tasks[1].pc = "done"
               THEN [call EXCEPT !.status = "returned", !.results = <<Result(1)>>]
               ELSE [call EXCEPT !.status = "raised"]
    /\ UNCHANGED <<disk, disk0, tasks, last, store, rec>>

\* The bytes of a cached file are changed from outside, between two calls.
Corrupt(path) ==
    /\ Idle
    /\ Exists(path) /\ disk[path] # Junk
    /\ disk' = WithFile(path, Junk)
    /\ disk0' = disk'
    /\ last' = [NoLast EXCEPT !.kind = "mutation", !.path = path]
    /\ call' = NoCall
    /\ tasks' = <<>>
    /\ UNCHANGED <<store, rec>>

\* ------------------------------------------------- download_multiple_media

\* Invocations a worker thread is executing.
Running == {t \in DOMAIN tasks : tasks[t].pc \notin {"queued", "done", "failed"}}

Queued == {t \in DOMAIN tasks : tasks[t].pc = "queued"}

Finished == {t \in DOMAIN tasks : tasks[t].pc \in {"done", "failed"}}

\* Lines 365-370: the executor is created and every URL submitted.
PutManyCall(urls, max_workers) ==
    /\ Idle
    /\ call' = [NoCall EXCEPT !.kind = "putMany", !.status = "running",
                              !.urls = urls, !.max_workers = max_workers]
    /\ tasks' = [i \in 1..Len(urls) |-> NewTask(urls[i], None, "queued")]
    /\ last' = NoLast
    /\ disk0' = disk
    /\ UNCHANGED <<disk, store, rec>>

\* WorkerFree with a thread started for every submitted item.
WorkerAlwaysFree == TRUE

\* ThreadPoolExecutor(max_workers): a submitted item runs only on one of at
\* most max_workers threads.
WorkerFree == Cardinality(Running) < call.max_workers

\* A worker thread takes the oldest queued work item.
StartTask(t) ==
    /\ call.kind = "putMany"
    /\ t \in Queued /\ \A s \in Queued : t <= s
    /\ WorkerFree
    /\ tasks' = [tasks EXCEPT ![t].pc = "download"]
    /\ UNCHANGED <<disk, disk0, call, last, store, rec>>

\* Lines 373-380: as_completed yields a finished future; its result is
\* appended, or its exception logged.
Collect(t) ==
    /\ call.kind = "putMany" /\ call.status = "running"
    /\ t \in Finished \ call.collected
    /\ call' = IF tasks[t].pc = "done"
               THEN [call EXCEPT !.collected = @ \cup {t},
                                 !.results = Append(@, Result(t))]
               ELSE [call EXCEPT !.collected = @ \cup {t}, !.logged = @ + 1]
    /\ UNCHANGED <<disk, disk0, tasks, last, store, rec>>

\* AllCollected with the return inside the as_completed loop.
SomeCollected == call.collected # {}

\* The as_completed loop ends when every future has been yielded.
AllCollected == call.collected = DOMAIN tasks

\* Line 382, after the with block (shutdown(wait=True)).
PutManyReturn ==
    /\ call.kind = "putMany" /\ call.status = "running"
    /\ AllCollected
    /\ call' = [call EXCEPT !.status = "returned"]
    /\ UNCHANGED <<disk, disk0, tasks, last, store, rec>>

\* ------------------------------------------------------- the cache system

\* The media_type arguments direct callers pass (the CLI passes none).
Hints == {None, "video"}

\* post_data['media'] of a post without media.
NoMedia == [type |-> None, url |-> NoUrl, images |-> <<>>]

\* The ingestion runs that may call extract_and_store_media.
Runs == {1, 2}

\* An extract_and_store_media call: its position, its arguments and locals,
\* the stats dictionary, and the fetches and inserts it made.
NoRec ==
    [pc         |-> "idle",     \* idle, lookup, put, returned
     post_id    |-> None,
     media      |-> NoMedia,    \* post_data.get('media', {})
     media_urls |-> <<>>,
     i          |-> 0,          \* index of the media item being processed
     stats      |-> [media_ids |-> <<>>, media_count |-> 0,
                     media_cached |-> 0, media_errors |-> 0],
     fetches    |-> 0,
     inserts    |-> 0,
     store_errors |-> 0,        \* exceptions raised by the post_media client
     again      |-> FALSE,      \* the call before had the same arguments and no error
     prev_cached |-> 0]         \* media_cached returned by the call before

Init ==
    /\ disk = <<>>
    /\ disk0 = <<>>
    /\ tasks = <<>>
    /\ call = NoCall
    /\ last = NoLast
    /\ store = {}
    /\ rec = [r \in Runs |-> NoRec]

\* Sequential use of the cache: one download_and_cache_media call at a time,
\* with mutations of cached files between calls.
Next ==
    \/ \E u \in Urls, h \in Hints : PutCall(u, h)
    \/ PutStep(1)
    \/ PutReturn
    \/ \E p \in DOMAIN disk : Corrupt(p)

Spec == Init /\ [][Next]_vars

\* ------------------------------------------------------ type detection

\* Resources served as image/png, as video/mp4, with a Content-Type the MIME
\* table does not know, and without Content-Type.
DetectResources == {"/png", "/mp4v", "/html", "/raw"}

\* The extension tokens of a path: none, one, one in upper case, two.
DetectExts ==
    {<<>>, <<".jpg">>, <<".mp4">>, <<".MP4">>, <<".jpg", ".mp4">>, <<".mp4", ".pdf">>}

\* Query strings: none, or one that holds an extension token.
DetectQueries == {<<>>, <<".mp4">>}

DetectUrls ==
    {[path |-> <<res>> \o ext, query |-> q] :
        res \in DetectResources, ext \in DetectExts, q \in DetectQueries}

\* media_type arguments: none, a class of CACHE_DIRS, a class outside it.
DetectHints == Hints \cup {"audio"}

\* Cache trees the call may find: empty, or holding the file of a URL without
\* known token or of a video URL, intact or mutated.
DetectDisks ==
    {<<>>} \cup
    {[q \in {path} |-> c] :
        path \in {get_media_cache_path("image", "d1", ".bin"),
                  get_media_cache_path("video", "d1", ".mp4")},
        c \in {"b1", Junk}}

InitDetect ==
    /\ disk \in DetectDisks
    /\ disk0 = disk
    /\ tasks = <<>>
    /\ call = NoCall
    /\ last = NoLast
    /\ store = {}
    /\ rec = [r \in Runs |-> NoRec]

\* One download_and_cache_media call, for every URL shape, Content-Type and
\* media_type argument.
NextDetect ==
    \/ \E u \in DetectUrls, h \in DetectHints : call.kind = "none" /\ PutCall(u, h)
    \/ PutStep(1)
    \/ PutReturn

SpecDetect == InitDetect /\ [][NextDetect]_vars

\* ------------------------------------------------------- lookups by name

\* hashlib.md5(url.encode('utf-8')).hexdigest(): the name older cache
\* generations gave the file of a URL; no content digest equals it.
UrlMd5(url) ==
    CASE url = UrlA -> "ha"
      [] url = UrlB -> "hb"
      [] url = UrlC -> "hc"
      [] OTHER -> "hv"

\* CACHE_DIRS.values() in the order of the dictionary.
CacheDirOrder == <<CACHE_DIRS["image"], CACHE_DIRS["video"], CACHE_DIRS["document"]>>

\* cache_dir.glob(f"{stem}.*"): the files of a directory named stem.<anything>.
Glob(dir, stem) == {path \in DOMAIN disk : path.dir = dir /\ path.md5 = stem}

\* The loop of find_cached_by_md5 and find_cached_by_url: the values it may
\* return, a file of the first directory whose glob yields one (glob promises
\* no order), else None.
FirstGlobbed(stem) ==
    LET hits == {i \in 1..Len(CacheDirOrder) : Glob(CacheDirOrder[i], stem) # {}}
    IN  IF hits = {} THEN {NoPath}
        ELSE Glob(CacheDirOrder[CHOOSE i \in hits : \A j \in hits : i <= j], stem)

find_cached_by_md5(md5_sum) == FirstGlobbed(md5_sum)

find_cached_by_url(url) == FirstGlobbed(UrlMd5(url))

\* A lookup: `media_cache.py verify <md5>` or a find_cached_by_url call.
NoLookup ==
    [kind        |-> "verify",
     status      |-> "running",  \* running, returned
     md5_sum     |-> None,       \* sys.argv[2]
     url         |-> NoUrl,
     cached_file |-> NoPath,
     is_valid    |-> FALSE,
     printed     |-> None]       \* file, not found

\* The files a cache tree may hold: content-addressed under two extensions
\* and in two directories, and one under the legacy name of UrlA.
LookupPaths ==
    {[dir |-> "images", md5 |-> "d1", ext |-> ".jpg"],
     [dir |-> "images", md5 |-> "d1", ext |-> ".png"],
     [dir |-> "videos", md5 |-> "d1", ext |-> ".jpg"],
     [dir |-> "images", md5 |-> UrlMd5(UrlA), ext |-> ".jpg"]}

\* Each file holds the bytes UrlA serves, or mutated bytes.
LookupDisks ==
    UNION {[paths -> {ServerBody(UrlA), Junk}] : paths \in SUBSET LookupPaths}

\* The digests and names asked for.
LookupArgs == {"d1", "d2", UrlMd5(UrlA)}

InitLookup ==
    /\ disk \in LookupDisks
    /\ disk0 = disk
    /\ tasks = <<>>
    /\ call = NoCall
    /\ last = NoLast
    /\ store = {}
    /\ rec = [r \in Runs |-> NoRec]

\* Lines 499-500: the verify command with its argument.
VerifyCommand(md5_sum) ==
    /\ call.kind = "none"
    /\ call' = [NoLookup EXCEPT !.md5_sum = md5_sum]
    /\ UNCHANGED <<disk, disk0, tasks, last, store, rec>>

\* Lines 501-503 and 506-507: find_cached_by_md5; without file the command
\* prints "No cached file found".
VerifyFind ==
    /\ call.kind = "verify" /\ call.status = "running" /\ call.cached_file = NoPath
    /\ \E path \in find_cached_by_md5(call.md5_sum) :
          call' = IF path = NoPath
                  THEN [call EXCEPT !.status = "returned", !.printed = "not found"]
                  ELSE [call EXCEPT !.cached_file = path]
    /\ UNCHANGED <<disk, disk0, tasks, last, store, rec>>

\* Lines 503-505: verify_cached_media(cached_file, md5_sum), then the report.
VerifyFound ==
    /\ call.kind = "verify" /\ call.status = "running" /\ call.cached_file # NoPath
    /\ call' = [call EXCEPT
                  !.status = "returned", !.printed = "file",
                  !.is_valid = /\ Exists(call.cached_file)
                               /\ calculate_md5(call.cached_file) = call.md5_sum]
    /\ UNCHANGED <<disk, disk0, tasks, last, store, rec>>

\* A caller of the module invokes find_cached_by_url(url).
FindByUrl(url) ==
    /\ call.kind = "none"
    /\ \E path \in find_cached_by_url(url) :
          call' = [NoLookup EXCEPT !.kind = "find_by_url", !.status = "returned",
                                   !.url = url, !.cached_file = path]
    /\ UNCHANGED <<disk, disk0, tasks, last, store, rec>>

\* One lookup on a cache tree that holds content-addressed and legacy files.
NextLookup ==
    \/ \E md5_sum \in LookupArgs : VerifyCommand(md5_sum)
    \/ VerifyFind
    \/ VerifyFound
    \/ \E url \in Urls : FindByUrl(url)

SpecLookup == InitLookup /\ [][NextLookup]_vars

\* ------------------------------------------------------- the batch system

\* The URLs handed to download_multiple_media: UrlA and UrlC resolve to the
\* same cache path, UrlV to another.
BatchUrls == {UrlA, UrlC, UrlV}

BatchInputs == UNION {[1..n -> BatchUrls] : n \in 0..MaxBatch}

PathA == get_media_cache_path("image", calculate_md5_from_bytes(ServerBody(UrlA)),
                              get_extension_from_url(UrlA))

\* Cache trees a batch may find: empty, UrlA's file cached, or that file
\* mutated since it was cached.
BatchDisks == {<<>>} \cup {[q \in {PathA} |-> c] : c \in {ServerBody(UrlA), Junk}}

InitBatch ==
    /\ disk \in BatchDisks
    /\ disk0 = disk
    /\ tasks = <<>>
    /\ call = NoCall
    /\ last = NoLast
    /\ store = {}
    /\ rec = [r \in Runs |-> NoRec]

\* One download_multiple_media call: the worker threads interleave freely.
NextBatch ==
    \/ \E us \in BatchInputs, w \in 1..MaxWorkers :
          call.kind = "none" /\ PutManyCall(us, w)
    \/ \E t \in 1..MaxBatch : StartTask(t)
    \/ \E t \in 1..MaxBatch : PutStep(t)
    \/ \E t \in 1..MaxBatch : Collect(t)
    \/ PutManyReturn

SpecBatch == InitBatch /\ [][NextBatch]_vars

\* --------------------------------------------------- extract_and_store_media

\* The media payloads of the posts: one image, a gallery, a gallery that
\* lists one URL twice beside an entry without url, one video, none.
MediaImage == [type |-> "image", url |-> UrlA, images |-> <<>>]

MediaGallery ==
    [type |-> "images", url |-> NoUrl, images |-> <<[url |-> UrlA], [url |-> UrlB]>>]

MediaTwice ==
    [type |-> "images", url |-> NoUrl,
     images |-> <<[url |-> UrlA], [url |-> NoUrl], [url |-> UrlA]>>]

MediaVideo == [type |-> "video", url |-> UrlV, images |-> <<>>]

\* A payload that lists as a video the URL MediaImage lists as an image.
MediaVideoA == [type |-> "video", url |-> UrlA, images |-> <<>>]

Payloads == {MediaImage, MediaGallery, MediaTwice, MediaVideo, NoMedia}

Posts == {"p-1", "p-2"}

\* ExtractUrls with every gallery entry taken, also one without url.
ExtractUrlsAllEntries(media) ==
    IF media.type = "image" /\ media.url # NoUrl
    THEN <<[url |-> media.url, type |-> "image"]>>
    ELSE IF media.type = "images"
    THEN [k \in 1..Len(media.images) |-> [url |-> media.images[k].url, type |-> "image"]]
    ELSE IF media.type = "video" /\ media.url # NoUrl
    THEN <<[url |-> media.url, type |-> "video"]>>
    ELSE <<>>

\* Lines 119-139: the media items of a payload.
ExtractUrls(media) ==
    IF media.type = "image" /\ media.url # NoUrl
    THEN <<[url |-> media.url, type |-> "image"]>>
    ELSE IF media.type = "images"
    THEN LET with == SelectSeq(media.images, LAMBDA img : img.url # NoUrl)
         IN  [k \in 1..Len(with) |-> [url |-> with[k].url, type |-> "image"]]
    ELSE IF media.type = "video" /\ media.url # NoUrl
    THEN <<[url |-> media.url, type |-> "video"]>>
    ELSE <<>>

IdleTask == NewTask(NoUrl, None, "none")

\* Lines 153-155: select('media_id').eq('post_id', ..).eq('media_url', ..).
SelectMedia(post_id, url) ==
    {row \in store : row.post_id = post_id /\ row.media_url = url}

\* existing_result.data[0]: the first row the select returned.
FirstRow(rows) == CHOOSE row \in rows : \A other \in rows : row.media_id.n <= other.media_id.n

\* Line 168: generate_aws_id(PREFIX_MEDIA), an identifier no other row has.
NewMediaId(post_id, url) ==
    [post_id |-> post_id, media_url |-> url, n |-> Cardinality(SelectMedia(post_id, url)) + 1]

\* json.dumps(ai_log): the log travels as one JSON text.
json_dumps(value) == [json |-> value]

\* json.loads of a text json_dumps made.
json_loads(text) == text.json

\* NewRow with ai_analysis_log left empty.
NewRowEmptyLog(post_id, url, result) ==
    [media_id           |-> NewMediaId(post_id, url),
     post_id            |-> post_id,
     media_type         |-> result.media_type,
     media_url          |-> url,
     local_file_path    |-> result.local_path,
     md5_sum            |-> result.md5_sum,
     file_size          |-> result.file_size,
     mime_type          |-> result.mime_type,
     ai_analysis_status |-> "not_started",
     ai_analysis_log    |-> json_dumps(<<>>)]

\* Lines 171-198: the row inserted for the result of a download.
NewRow(post_id, url, result) ==
    [media_id           |-> NewMediaId(post_id, url),
     post_id            |-> post_id,
     media_type         |-> result.media_type,
     media_url          |-> url,
     local_file_path    |-> result.local_path,
     md5_sum            |-> result.md5_sum,
     file_size          |-> result.file_size,
     mime_type          |-> result.mime_type,
     ai_analysis_status |-> "not_started",
     ai_analysis_log    |-> json_dumps(
                               <<[event   |-> "media_downloaded",
                                  status  |-> "success",
                                  details |-> [file_size |-> result.file_size,
                                               mime_type |-> result.mime_type,
                                               md5_sum   |-> result.md5_sum]]>>)]

\* The media item the loop of line 147 is at.
Item(r) == rec[r].media_urls[rec[r].i]

\* The next iteration of the loop of line 147, or the return of line 210.
Continue(rc) ==
    IF rc.i < Len(rc.media_urls)
    THEN [rc EXCEPT !.i = @ + 1, !.pc = "lookup"]
    ELSE [rc EXCEPT !.pc = "returned"]

\* Lines 107-144: the call; without media items it returns at once.
ReconcileCall(r, post_id, media) ==
    /\ rec[r].pc \in {"idle", "returned"}
    /\ LET urls  == IF media.type = None THEN <<>> ELSE ExtractUrls(media)
           again == /\ rec[r].pc = "returned"
                    /\ rec[r].post_id = post_id /\ rec[r].media = media
                    /\ rec[r].stats.media_errors = 0
           new   == [NoRec EXCEPT !.post_id = post_id, !.media = media,
                                  !.media_urls = urls,
                                  !.stats.media_count = Len(urls),
                                  !.again = again,
                                  !.prev_cached = IF again THEN rec[r].stats.media_cached
                                                  ELSE 0]
       IN  rec' = [rec EXCEPT ![r] = IF urls = <<>>
                                     THEN [new EXCEPT !.pc = "returned"]
                                     ELSE [new EXCEPT !.pc = "lookup", !.i = 1]]
    /\ disk0' = disk
    /\ UNCHANGED <<disk, tasks, call, last, store>>

\* HasRecord with the lookup of lines 153-157 left out.
HasRecordNever(post_id, url) == FALSE

\* The existing-record test of line 157.
HasRecord(post_id, url) == SelectMedia(post_id, url) # {}

\* LookupFound with a check of the row's file: a missing file is downloaded again.
LookupFoundVerifies(r) ==
    /\ rec[r].pc = "lookup"
    /\ HasRecord(rec[r].post_id, Item(r).url)
    /\ LET row == FirstRow(SelectMedia(rec[r].post_id, Item(r).url))
       IN  IF Exists(row.local_file_path)
           THEN /\ rec' = [rec EXCEPT ![r] =
                            Continue([rec[r] EXCEPT
                               !.stats.media_ids = Append(@, row.media_id),
                               !.stats.media_cached = @ + 1])]
                /\ tasks' = tasks
           ELSE /\ rec' = [rec EXCEPT ![r].pc = "put"]
                /\ tasks' = [tasks EXCEPT
                                ![r] = NewTask(Item(r).url, Item(r).type, "download")]
    /\ UNCHANGED <<disk, disk0, call, last, store>>

\* Lines 153-161: a row exists for (post_id, url): its id is appended.
LookupFound(r) ==
    /\ rec[r].pc = "lookup"
    /\ HasRecord(rec[r].post_id, Item(r).url)
    /\ rec' = [rec EXCEPT ![r] =
                 Continue([rec[r] EXCEPT
                    !.stats.media_ids =
                        Append(@, FirstRow(SelectMedia(rec[r].post_id, Item(r).url)).media_id),
                    !.stats.media_cached = @ + 1])]
    /\ UNCHANGED <<disk, disk0, tasks, call, last, store>>

\* LookupMiss that gives the item up instead of downloading it.
LookupMissSkips(r) ==
    /\ rec[r].pc = "lookup"
    /\ ~HasRecord(rec[r].post_id, Item(r).url)
    /\ rec' = [rec EXCEPT ![r] = Continue([rec[r] EXCEPT !.stats.media_errors = @ + 1])]
    /\ UNCHANGED <<disk, disk0, tasks, call, last, store>>

\* Lines 153-165: no row exists: download_and_cache_media(url, media_type) is called.
LookupMiss(r) ==
    /\ rec[r].pc = "lookup"
    /\ ~HasRecord(rec[r].post_id, Item(r).url)
    /\ rec' = [rec EXCEPT ![r].pc = "put"]
    /\ tasks' = [tasks EXCEPT ![r] = NewTask(Item(r).url, Item(r).type, "download")]
    /\ UNCHANGED <<disk, disk0, call, last, store>>

\* Lines 153-155 raising; lines 204-208 count the error and continue.
LookupFail(r) ==
    /\ rec[r].pc = "lookup"
    /\ rec' = [rec EXCEPT ![r] =
                 Continue([rec[r] EXCEPT !.stats.media_errors = @ + 1,
                                         !.store_errors = @ + 1])]
    /\ UNCHANGED <<disk, disk0, tasks, call, last, store>>

\* Insert without the .execute() of line 198: the row is built, not stored.
InsertNotExecuted(r) ==
    /\ rec[r].pc = "put" /\ tasks[r].pc = "done"
    /\ LET row == NewRow(rec[r].post_id, Item(r).url, Result(r))
       IN  rec' = [rec EXCEPT ![r] =
                     Continue([rec[r] EXCEPT
                        !.stats.media_ids = Append(@, row.media_id),
                        !.stats.media_cached = @ + 1,
                        !.fetches = @ + tasks[r].fetched,
                        !.inserts = @ + 1])]
    /\ tasks' = [tasks EXCEPT ![r] = IdleTask]
    /\ UNCHANGED <<disk, disk0, call, last, store>>

\* Lines 167-202: the download returned; the row is inserted.
Insert(r) ==
    /\ rec[r].pc = "put" /\ tasks[r].pc = "done"
    /\ LET row == NewRow(rec[r].post_id, Item(r).url, Result(r))
       IN  /\ store' = store \cup {row}
           /\ rec' = [rec EXCEPT ![r] =
                        Continue([rec[r] EXCEPT
                           !.stats.media_ids = Append(@, row.media_id),
                           !.stats.media_cached = @ + 1,
                           !.fetches = @ + tasks[r].fetched,
                           !.inserts = @ + 1])]
    /\ tasks' = [tasks EXCEPT ![r] = IdleTask]
    /\ UNCHANGED <<disk, disk0, call, last>>

\* InsertFail with the media_id appended before the insert is executed.
InsertFailAfterAppend(r) ==
    /\ rec[r].pc = "put" /\ tasks[r].pc = "done"
    /\ rec' = [rec EXCEPT ![r] =
                 Continue([rec[r] EXCEPT !.stats.media_ids = Append(@, NewMediaId(rec[r].post_id, Item(r).url)),
                                         !.stats.media_errors = @ + 1,
                                         !.store_errors = @ + 1,
                                         !.fetches = @ + tasks[r].fetched])]
    /\ tasks' = [tasks EXCEPT ![r] = IdleTask]
    /\ UNCHANGED <<disk, disk0, call, last, store>>

\* Lines 183-198 raising: no row is stored; lines 204-208.
InsertFail(r) ==
    /\ rec[r].pc = "put" /\ tasks[r].pc = "done"
    /\ rec' = [rec EXCEPT ![r] =
                 Continue([rec[r] EXCEPT !.stats.media_errors = @ + 1,
                                         !.store_errors = @ + 1,
                                         !.fetches = @ + tasks[r].fetched])]
    /\ tasks' = [tasks EXCEPT ![r] = IdleTask]
    /\ UNCHANGED <<disk, disk0, call, last, store>>

\* PutRaised with a handler that leaves the loop instead of `continue`.
PutRaisedAborts(r) ==
    /\ rec[r].pc = "put" /\ tasks[r].pc = "failed"
    /\ rec' = [rec EXCEPT ![r] = [rec[r] EXCEPT !.stats.media_errors = @ + 1,
                                                !.fetches = @ + tasks[r].fetched,
                                                !.pc = "returned"]]
    /\ tasks' = [tasks EXCEPT ![r] = IdleTask]
    /\ UNCHANGED <<disk, disk0, call, last, store>>

\* Line 165 raising; lines 204-208.
PutRaised(r) ==
    /\ rec[r].pc = "put" /\ tasks[r].pc = "failed"
    /\ rec' = [rec EXCEPT ![r] =
                 Continue([rec[r] EXCEPT !.stats.media_errors = @ + 1,
                                         !.fetches = @ + tasks[r].fetched])]
    /\ tasks' = [tasks EXCEPT ![r] = IdleTask]
    /\ UNCHANGED <<disk, disk0, call, last, store>>

\* The run whose calls are made one after another.
SeqRuns == {1}

\* A cached file is deleted from outside while no extract_and_store_media
\* call is in progress; the post_media rows that name it stay.  One such
\* deletion is followed.
Evict(path) ==
    /\ \A r \in Runs : rec[r].pc \in {"idle", "returned"}
    /\ last = NoLast
    /\ Exists(path)
    /\ disk' = WithoutFile(path)
    /\ disk0' = disk'
    /\ last' = [NoLast EXCEPT !.kind = "eviction", !.path = path]
    /\ UNCHANGED <<tasks, call, store, rec>>

InitReconcile ==
    /\ disk = <<>>
    /\ disk0 = <<>>
    /\ tasks = [r \in Runs |-> IdleTask]
    /\ call = NoCall
    /\ last = NoLast
    /\ store = {}
    /\ rec = [r \in Runs |-> NoRec]

\* extract_and_store_media calls made one after another.
NextReconcile ==
    \/ \E r \in SeqRuns, post_id \in Posts, media \in Payloads :
          ReconcileCall(r, post_id, media)
    \/ \E r \in SeqRuns : LookupFound(r)
    \/ \E r \in SeqRuns : LookupMiss(r)
    \/ \E r \in SeqRuns : LookupFail(r)
    \/ \E r \in SeqRuns : PutStep(r)
    \/ \E r \in SeqRuns : Insert(r)
    \/ \E r \in SeqRuns : InsertFail(r)
    \/ \E r \in SeqRuns : PutRaised(r)

SpecReconcile == InitReconcile /\ [][NextReconcile]_vars

\* ------------------------------------------------- payloads of every shape

\* Payloads beside the well-formed ones: a type the code does not know, an
\* image and a video without url, a gallery without entries, and a payload
\* without type that carries a url and a gallery.
MediaOther == [type |-> "document", url |-> UrlA, images |-> <<[url |-> UrlA]>>]

MediaImageNoUrl == [type |-> "image", url |-> NoUrl, images |-> <<[url |-> UrlA]>>]

MediaVideoNoUrl == [type |-> "video", url |-> NoUrl, images |-> <<>>]

MediaEmptyGallery == [type |-> "images", url |-> UrlA, images |-> <<>>]

MediaNoType == [type |-> None, url |-> UrlA, images |-> <<[url |-> UrlA]>>]

ExtractPayloads ==
    {MediaImage, MediaTwice, MediaVideo, NoMedia, MediaOther, MediaImageNoUrl,
     MediaVideoNoUrl, MediaEmptyGallery, MediaNoType}

\* extract_and_store_media calls made one after another over payloads of
\* every shape.
NextExtract ==
    \/ \E r \in SeqRuns, post_id \in Posts, media \in ExtractPayloads :
          ReconcileCall(r, post_id, media)
    \/ \E r \in SeqRuns : LookupFound(r)
    \/ \E r \in SeqRuns : LookupMiss(r)
    \/ \E r \in SeqRuns : LookupFail(r)
    \/ \E r \in SeqRuns : PutStep(r)
    \/ \E r \in SeqRuns : Insert(r)
    \/ \E r \in SeqRuns : InsertFail(r)
    \/ \E r \in SeqRuns : PutRaised(r)

SpecExtract == InitReconcile /\ [][NextExtract]_vars

\* ------------------------------------------------ two runs at the same time

\* The payload and the post an import run and a backfill run both process.
ConcurrentPayloads == {MediaImage}

ConcurrentPosts == {"p-1"}

\* extract_and_store_media called by two runs (import_directory and
\* backfill_media, two processes on one table and one cache tree) whose steps
\* interleave.
NextConcurrent ==
    \/ \E r \in Runs, post_id \in ConcurrentPosts, media \in ConcurrentPayloads :
          ReconcileCall(r, post_id, media)
    \/ \E r \in Runs : LookupFound(r)
    \/ \E r \in Runs : LookupMiss(r)
    \/ \E r \in Runs : LookupFail(r)
    \/ \E r \in Runs : PutStep(r)
    \/ \E r \in Runs : Insert(r)
    \/ \E r \in Runs : InsertFail(r)
    \/ \E r \in Runs : PutRaised(r)

SpecConcurrent == InitReconcile /\ [][NextConcurrent]_vars

\* ---------------------------------------- the same call, again and again

\* The post and the payload every run of the import or the backfill passes
\* again.
RetryPost == "p-1"

RetryPayload == MediaGallery

\* The network, the disk and the table stop failing: from here on no
\* urlopen, open, write, select or insert raises.
StopFaults ==
    /\ last.kind # "calm"
    /\ last' = [NoLast EXCEPT !.kind = "calm"]
    /\ UNCHANGED <<disk, disk0, tasks, call, store, rec>>

Faulty == last.kind # "calm"

\* extract_and_store_media called again and again for one post and payload,
\* with failures of the fetch, the disk and the table until they stop.
NextRetry ==
    \/ ReconcileCall(1, RetryPost, RetryPayload)
    \/ LookupFound(1)
    \/ LookupMiss(1)
    \/ Faulty /\ LookupFail(1)
    \/ Download(1)
    \/ Faulty /\ DownloadFail(1)
    \/ CheckExists(1)
    \/ VerifyExists(1)
    \/ VerifyMd5(1)
    \/ Unlink(1)
    \/ Stat(1)
    \/ OpenFile(1)
    \/ Faulty /\ OpenFail(1)
    \/ WriteFile(1)
    \/ Faulty /\ WriteFail(1)
    \/ Finish(1)
    \/ Insert(1)
    \/ Faulty /\ InsertFail(1)
    \/ PutRaised(1)
    \/ StopFaults

SpecRetry == InitReconcile /\ [][NextRetry]_vars

\* Every call and every step of a call ends (each blocking operation has a
\* timeout), and the runs keep calling.
FairRetry == SpecRetry /\ WF_vars(NextRetry)

\* ------------------------------------------------ websocket_server.py relay

\* The websockets that connect to the server.
Clients == {"tui", "viewer", "logger"}

NoMessage == [sender |-> None, n |-> 0]

\* A connection handler before its websocket has connected.
NoHandler == [pc |-> "none", message |-> NoMessage, clients_to_send |-> {}]

\* Line 9: connected_clients = set(); no websocket is open, nothing was
\* received or sent.
NoRelay ==
    [kind              |-> "ws",
     connected_clients |-> {},
     open              |-> {},       \* websockets whose connection is open
     handler           |-> [c \in Clients |-> NoHandler],
     receipts          |-> {},       \* messages received, with connected_clients then
     sends             |-> {}]       \* client.send calls made, with their outcome

InitRelay ==
    /\ disk = <<>>
    /\ disk0 = <<>>
    /\ tasks = <<>>
    /\ call = NoRelay
    /\ last = NoLast
    /\ store = {}
    /\ rec = [r \in Runs |-> NoRec]

\* Lines 11-19: a websocket connects; its handler adds it and listens.
Connect(c) ==
    /\ call.handler[c].pc = "none"
    /\ call' = [call EXCEPT !.connected_clients = @ \cup {c},
                            !.open = @ \cup {c},
                            !.handler[c].pc = "listen"]
    /\ UNCHANGED <<disk, disk0, tasks, last, store, rec>>

\* The connection of a websocket closes, by the peer or the network; its
\* handler notices when it next reads from it.
Close(c) ==
    /\ c \in call.open
    /\ call' = [call EXCEPT !.open = @ \ {c}]
    /\ UNCHANGED <<disk, disk0, tasks, last, store, rec>>

\* Lines 21-25 and 33-34: a message arrives; clients_to_send is every
\* connected client but the sender; without one the handler listens on.
Receive(c) ==
    /\ call.handler[c].pc = "listen"
    /\ c \in call.open
    /\ Cardinality(call.receipts) < MaxMessages
    /\ LET message == [sender |-> c, n |-> Cardinality(call.receipts) + 1]
           clients_to_send == {client \in call.connected_clients : client # c}
       IN  call' = [call EXCEPT
                      !.receipts = @ \cup {[message |-> message,
                                            connected_clients |-> call.connected_clients]},
                      !.handler[c] = IF clients_to_send = {}
                                     THEN @
                                     ELSE [pc |-> "broadcast", message |-> message,
                                           clients_to_send |-> clients_to_send]]
    /\ UNCHANGED <<disk, disk0, tasks, last, store, rec>>

\* Send with a closed recipient ending the broadcast.
SendAborts(c, client) ==
    /\ call.handler[c].pc = "broadcast"
    /\ client \in call.handler[c].clients_to_send
    /\ LET ok   == client \in call.open
           rest == IF ok THEN call.handler[c].clients_to_send \ {client} ELSE {}
       IN  call' = [call EXCEPT
                      !.sends = @ \cup {[message |-> call.handler[c].message,
                                         client |-> client, ok |-> ok]},
                      !.handler[c] = IF rest = {} THEN [NoHandler EXCEPT !.pc = "listen"]
                                     ELSE [@ EXCEPT !.clients_to_send = rest]]
    /\ UNCHANGED <<disk, disk0, tasks, last, store, rec>>

\* Lines 27-32: await client.send(message) for the next client of the list
\* (built from a set, in any order); ConnectionClosed is passed over.  After
\* the last client the handler listens again.
Send(c, client) ==
    /\ call.handler[c].pc = "broadcast"
    /\ client \in call.handler[c].clients_to_send
    /\ LET ok   == client \in call.open
           rest == call.handler[c].clients_to_send \ {client}
       IN  call' = [call EXCEPT
                      !.sends = @ \cup {[message |-> call.handler[c].message,
                                         client |-> client, ok |-> ok]},
                      !.handler[c] = IF rest = {} THEN [NoHandler EXCEPT !.pc = "listen"]
                                     ELSE [@ EXCEPT !.clients_to_send = rest]]
    /\ UNCHANGED <<disk, disk0, tasks, last, store, rec>>

\* Lines 21 and 36-44: the iteration over a closed websocket ends or raises
\* ConnectionClosedError; the finally block removes the websocket.
EndSession(c) ==
    /\ call.handler[c].pc = "listen"
    /\ c \notin call.open
    /\ call' = [call EXCEPT !.connected_clients = @ \ {c},
                            !.handler[c].pc = "ended"]
    /\ UNCHANGED <<disk, disk0, tasks, last, store, rec>>

\* The handlers are coroutines of one event loop: they interleave at their
\* awaits.
NextRelay ==
    \/ \E c \in Clients : Connect(c)
    \/ \E c \in Clients : Close(c)
    \/ \E c \in Clients : Receive(c)
    \/ \E c, client \in Clients : Send(c, client)
    \/ \E c \in Clients : EndSession(c)

SpecRelay == InitRelay /\ [][NextRelay]_vars

\* ------------------------------------------- posts that share a media URL

\* Payloads of posts that list the same URL: as an image, as a video, and
\* twice in one gallery.
SharedPayloads == {MediaImage, MediaVideoA, MediaTwice}

\* extract_and_store_media calls made one after another for posts that share
\* a URL, with a cached file deleted from outside between two calls.
NextShared ==
    \/ \E r \in SeqRuns, post_id \in Posts, media \in SharedPayloads :
          ReconcileCall(r, post_id, media)
    \/ \E r \in SeqRuns : LookupFound(r)
    \/ \E r \in SeqRuns : LookupMiss(r)
    \/ \E r \in SeqRuns : LookupFail(r)
    \/ \E r \in SeqRuns : PutStep(r)
    \/ \E r \in SeqRuns : Insert(r)
    \/ \E r \in SeqRuns : InsertFail(r)
    \/ \E r \in SeqRuns : PutRaised(r)
    \/ \E path \in DOMAIN disk : Evict(path)

SpecShared == InitReconcile /\ [][NextShared]_vars

\* ------------------------------------------------------- import_directory

\* A post whose 'media' is a string, not a dictionary: media.get raises
\* AttributeError at line 116, outside the try of line 151.
MediaString == [type |-> "str", url |-> NoUrl, images |-> <<>>]

IsDict(media) == media # MediaString

\* The posts of the JSON files: a gallery post, a video post, a post with a
\* malformed 'media', a post without URN.
PostA == [urn |-> "urn-1", media |-> MediaGallery]

PostB == [urn |-> "urn-2", media |-> MediaVideo]

PostBad == [urn |-> "urn-2", media |-> MediaString]

PostNoUrn == [urn |-> None, media |-> MediaImage]

ImportPosts == {PostA, PostB, PostBad, PostNoUrn}

\* glob(directory/*.json): one file holding one post or two, or two files of
\* one post each.
ImportFiles ==
    {<< <<p>> >> : p \in ImportPosts}
    \cup {<< <<p, q>> >> : p \in ImportPosts, q \in ImportPosts}
    \cup {<< <<p>>, <<q>> >> : p \in ImportPosts, q \in ImportPosts}

\* generate_aws_id(PREFIX_POST): the identifier of the post row of a URN.
PostIdOf(urn) == IF urn = "urn-1" THEN "p-1" ELSE "p-2"

\* The stats dictionary of lines 232-240.
NoStats ==
    [processed |-> 0, new |-> 0, duplicates |-> 0, errors |-> 0,
     media_total |-> 0, media_cached |-> 0, media_errors |-> 0]

\* An import_directory call followed by complete_download_run (main, lines
\* 380-383): position, loop indices, stats, and the tables it writes.
NoImport ==
    [kind       |-> "import",
     status     |-> "running",  \* running, returned, completed
     pc         |-> "file",     \* file, post, select, insert_post, media, download_row
     files      |-> <<>>,
     f          |-> 0,          \* index of the file being read
     j          |-> 0,          \* index of the post within the file
     post_id    |-> None,
     stats      |-> NoStats,
     posts      |-> {},         \* the urns of the rows of table posts
     downloads  |-> {},         \* the rows of table data_downloads
     db_faults  |-> 0,          \* exceptions raised by reading a file or by the
                                \* posts / data_downloads client
     run_status |-> "running"]  \* download_runs.status

ImportAt(pc) == call.kind = "import" /\ call.status = "running" /\ call.pc = pc

\* The post the loop of line 254 is at.
CurrentPost == call.files[call.f][call.j]

\* main, line 380: import_directory(client, directory).
ImportCall(files) ==
    /\ call.kind = "none"
    /\ call' = [NoImport EXCEPT !.files = files]
    /\ UNCHANGED <<disk, disk0, tasks, last, store, rec>>

\* Lines 242-252: the next file is opened and parsed; after the last one
\* import_directory returns (line 358).
NextFile ==
    /\ ImportAt("file")
    /\ call' = IF call.f < Len(call.files)
               THEN [call EXCEPT !.f = @ + 1, !.j = 0, !.pc = "post"]
               ELSE [call EXCEPT !.status = "returned"]
    /\ UNCHANGED <<disk, disk0, tasks, last, store, rec>>

\* Lines 244-245 raising (unreadable file, invalid JSON): lines 354-356.
FileFail ==
    /\ ImportAt("file") /\ call.f < Len(call.files)
    /\ call' = [call EXCEPT !.f = @ + 1, !.stats.errors = @ + 1, !.db_faults = @ + 1]
    /\ UNCHANGED <<disk, disk0, tasks, last, store, rec>>

\* Lines 254-261: the next post of the file; a post without URN is an error.
NextPost ==
    /\ ImportAt("post")
    /\ call' = IF call.j < Len(call.files[call.f])
               THEN LET post == call.files[call.f][call.j + 1]
                    IN  IF post.urn = None
                        THEN [call EXCEPT !.j = @ + 1, !.stats.processed = @ + 1,
                                          !.stats.errors = @ + 1]
                        ELSE [call EXCEPT !.j = @ + 1, !.stats.processed = @ + 1,
                                          !.pc = "select"]
               ELSE [call EXCEPT !.pc = "file"]
    /\ UNCHANGED <<disk, disk0, tasks, last, store, rec>>

\* Lines 264-270 and 283: the post exists (a duplicate) or is new.
SelectPost ==
    /\ ImportAt("select")
    /\ call' = IF CurrentPost.urn \in call.posts
               THEN [call EXCEPT !.post_id = PostIdOf(CurrentPost.urn),
                                 !.stats.duplicates = @ + 1, !.pc = "media"]
               ELSE [call EXCEPT !.post_id = PostIdOf(CurrentPost.urn),
                                 !.pc = "insert_post"]
    /\ UNCHANGED <<disk, disk0, tasks, last, store, rec>>

\* Line 264 raising: the handler of line 354 ends the file.
SelectPostFail ==
    /\ ImportAt("select")
    /\ call' = [call EXCEPT !.stats.errors = @ + 1, !.db_faults = @ + 1, !.pc = "file"]
    /\ UNCHANGED <<disk, disk0, tasks, last, store, rec>>

\* Lines 295-312: the post row is inserted.
InsertPost ==
    /\ ImportAt("insert_post")
    /\ call' = [call EXCEPT !.posts = @ \cup {CurrentPost.urn},
                            !.stats.new = @ + 1, !.pc = "media"]
    /\ UNCHANGED <<disk, disk0, tasks, last, store, rec>>

\* Lines 295-311 raising: lines 326-329.
InsertPostFail ==
    /\ ImportAt("insert_post")
    /\ call' = [call EXCEPT !.stats.errors = @ + 1, !.db_faults = @ + 1, !.pc = "post"]
    /\ UNCHANGED <<disk, disk0, tasks, last, store, rec>>

\* Lines 274 and 316: extract_and_store_media(client, post_id, post).
ExtractCall ==
    /\ ImportAt("media") /\ rec[1].pc = "idle"
    /\ IsDict(CurrentPost.media)
    /\ ReconcileCall(1, call.post_id, CurrentPost.media)

\* Lines 274 and 316 raising; the handlers of lines 278 and 322 only log.
ExtractRaises ==
    /\ ImportAt("media") /\ rec[1].pc = "idle"
    /\ ~IsDict(CurrentPost.media)
    /\ call' = [call EXCEPT !.pc = "download_row"]
    /\ UNCHANGED <<disk, disk0, tasks, last, store, rec>>

\* ExtractReturn with the media errors counted as errors of the import.
ExtractReturnCountsErrors ==
    /\ ImportAt("media") /\ rec[1].pc = "returned"
    /\ call' = [call EXCEPT
                  !.stats.media_total = @ + rec[1].stats.media_count,
                  !.stats.media_cached = @ + rec[1].stats.media_cached,
                  !.stats.media_errors = @ + rec[1].stats.media_errors,
                  !.stats.errors = @ + rec[1].stats.media_errors,
                  !.pc = "download_row"]
    /\ rec' = [rec EXCEPT ![1] = NoRec]
    /\ UNCHANGED <<disk, disk0, tasks, last, store>>

\* Lines 275-277 and 317-321: the media stats are added to the import's.
ExtractReturn ==
    /\ ImportAt("media") /\ rec[1].pc = "returned"
    /\ call' = [call EXCEPT
                  !.stats.media_total = @ + rec[1].stats.media_count,
                  !.stats.media_cached = @ + rec[1].stats.media_cached,
                  !.stats.media_errors = @ + rec[1].stats.media_errors,
                  !.pc = "download_row"]
    /\ rec' = [rec EXCEPT ![1] = NoRec]
    /\ UNCHANGED <<disk, disk0, tasks, last, store>>

\* Lines 332-349: the data_downloads row of the post.
InsertDownload ==
    /\ ImportAt("download_row")
    /\ call' = [call EXCEPT
                  !.downloads = @ \cup {[post_id |-> call.post_id,
                                         f |-> call.f, j |-> call.j]},
                  !.pc = "post"]
    /\ UNCHANGED <<disk, disk0, tasks, last, store, rec>>

\* Lines 339-349 raising: lines 350-352.
InsertDownloadFail ==
    /\ ImportAt("download_row")
    /\ call' = [call EXCEPT !.stats.errors = @ + 1, !.db_faults = @ + 1, !.pc = "post"]
    /\ UNCHANGED <<disk, disk0, tasks, last, store, rec>>

\* complete_download_run(client, run_id, stats), lines 79-88.
complete_download_run ==
    /\ call.kind = "import" /\ call.status = "returned"
    /\ call' = [call EXCEPT
                  !.status = "completed",
                  !.run_status = IF call.stats.errors > 0 THEN "failed" ELSE "completed"]
    /\ UNCHANGED <<disk, disk0, tasks, last, store, rec>>

\* One `manage_data.py import` run on an empty database and cache.
NextImport ==
    \/ \E files \in ImportFiles : ImportCall(files)
    \/ NextFile
    \/ FileFail
    \/ NextPost
    \/ SelectPost
    \/ SelectPostFail
    \/ InsertPost
    \/ InsertPostFail
    \/ ExtractCall
    \/ ExtractRaises
    \/ ImportAt("media") /\ LookupFound(1)
    \/ ImportAt("media") /\ LookupMiss(1)
    \/ ImportAt("media") /\ LookupFail(1)
    \/ ImportAt("media") /\ PutStep(1)
    \/ ImportAt("media") /\ Insert(1)
    \/ ImportAt("media") /\ InsertFail(1)
    \/ ImportAt("media") /\ PutRaised(1)
    \/ ExtractReturn
    \/ InsertDownload
    \/ InsertDownloadFail
    \/ complete_download_run

SpecImport == InitReconcile /\ [][NextImport]_vars

\* ------------------------------------------ every caller of the downloader

\* A download_multiple_media call, or none yet.
BatchMode == call.kind = "putMany" \/ (call.kind = "none" /\ tasks = <<>>)

\* extract_and_store_media calls.
ReconcileMode == call.kind = "none" /\ DOMAIN tasks = Runs

InitFetch == InitBatch \/ InitReconcile

\* The two callers of download_and_cache_media: a batch of worker threads,
\* or the ingestion loop.
NextFetch ==
    \/ \E us \in BatchInputs, w \in 1..MaxWorkers :
          call.kind = "none" /\ tasks = <<>> /\ PutManyCall(us, w)
    \/ \E t \in 1..MaxBatch : BatchMode /\ StartTask(t)
    \/ \E t \in 1..MaxBatch : BatchMode /\ PutStep(t)
    \/ \E t \in 1..MaxBatch : BatchMode /\ Collect(t)
    \/ BatchMode /\ PutManyReturn
    \/ \E r \in SeqRuns, post_id \in Posts, media \in Payloads :
          ReconcileMode /\ ReconcileCall(r, post_id, media)
    \/ \E r \in SeqRuns : ReconcileMode /\ LookupFound(r)
    \/ \E r \in SeqRuns : ReconcileMode /\ LookupMiss(r)
    \/ \E r \in SeqRuns : ReconcileMode /\ LookupFail(r)
    \/ \E r \in SeqRuns : ReconcileMode /\ PutStep(r)
    \/ \E r \in SeqRuns : ReconcileMode /\ Insert(r)
    \/ \E r \in SeqRuns : ReconcileMode /\ InsertFail(r)
    \/ \E r \in SeqRuns : ReconcileMode /\ PutRaised(r)

SpecFetch == InitFetch /\ [][NextFetch]_vars

\* ------------------------------------------------------------------ claims

\* Two direct calls in sequence, both returned; nothing happened in between.
TwoPuts ==
    /\ call.kind = "put" /\ call.status = "returned"
    /\ last.kind = "put" /\ last.ok

\* C1: after put has succeeded for two different URLs serving identical bytes,
\* exactly one file of the cache tree is named by the digest of those bytes
\* (whatever the extension tokens and media classes of the two URLs).
C1_ContentDedup ==
    (/\ TwoPuts
     /\ last.url # tasks[1].media_url
     /\ last.md5_sum = tasks[1].md5_sum)
    => Cardinality({p \in DOMAIN disk : p.md5 = tasks[1].md5_sum}) = 1

\* C2: whenever an invocation of put returns its result (alone or beside other
\* invocations of a batch), the file at the returned path exists and its bytes
\* hash to the returned digest.
C2_ReturnedFileMatches ==
    [][\A t \in DOMAIN tasks :
          (At(t, "return") /\ t \in DOMAIN tasks' /\ tasks'[t].pc = "done")
          => /\ Exists(tasks[t].cache_path)
             /\ calculate_md5(tasks[t].cache_path) = tasks[t].md5_sum]_vars

\* The same URL and media_type put twice in sequence, the first successfully,
\* with no mutation of the cache in between.
SamePutAgain ==
    /\ call.kind = "put"
    /\ last.kind = "put" /\ last.ok
    /\ last.url = tasks[1].media_url
    /\ last.media_type = call.media_type

\* C3 as stated: put(url) twice in sequence, without corruption in between,
\* fetches from the network once in total, and the second call is a cache hit.
C3_OneFetchInTotal ==
    (SamePutAgain /\ call.status = "returned")
    => /\ last.fetched + tasks[1].fetched = 1
       /\ tasks[1].hit

\* C3 as amended: put(url) twice in sequence, the first call successful and no
\* corruption in between, fetches once per call (twice in total); the second
\* call can fail only in its fetch, and when it returns it is a cache hit
\* that wrote and deleted nothing.
C3_OneFetchPerCallSecondIsHit ==
    SamePutAgain
    => /\ tasks[1].wrote = 0 /\ tasks[1].unlinked = 0 /\ disk = disk0
       /\ tasks[1].err \in {None, "URLError"}
       /\ call.status = "returned"
          => /\ tasks[1].hit
             /\ tasks[1].fetched = 1 /\ last.fetched = 1

\* C3 witness: the first call wrote the file, the second returned as a hit.
C3_Witness ==
    /\ SamePutAgain /\ call.status = "returned"
    /\ last.wrote = 1 /\ tasks[1].hit

\* The file at `path` did not hash to its name when the call started.
CorruptedAtStart(path) ==
    /\ path \in DOMAIN disk0
    /\ calculate_md5_from_bytes(disk0[path]) # path.md5

\* C4: a put (not concurrent with another) that resolves to a path whose file
\* does not hash to its name deletes the file; when it returns, it has
\* rewritten the file, which then hashes to its name; the only error it can
\* raise is that of the failed rewrite.
C4_SelfHealing ==
    (/\ call.kind = "put" /\ call.status # "running"
     /\ CorruptedAtStart(tasks[1].cache_path))
    => /\ tasks[1].unlinked = 1
       /\ call.status = "returned"
          => /\ tasks[1].wrote = 1 /\ ~tasks[1].hit
             /\ Exists(tasks[1].cache_path)
             /\ calculate_md5(tasks[1].cache_path) = tasks[1].cache_path.md5
       /\ call.status = "raised" => tasks[1].err = "OSError"

\* C4 witness: the first put after an external mutation of its file returned.
C4_Witness ==
    /\ call.kind = "put" /\ call.status = "returned"
    /\ last.kind = "mutation" /\ last.path = tasks[1].cache_path
    /\ disk0[last.path] = Junk

\* C5: two concurrent puts that resolve to the same cache path write the file
\* at most once, neither reads or returns it while it is truncated, and when
\* both have returned the file exists and hashes to its name.
C5_SamePathWritesSafe ==
    \A t, s \in DOMAIN tasks :
        (/\ call.kind = "putMany" /\ t # s
         /\ tasks[t].cache_path # NoPath
         /\ tasks[t].cache_path = tasks[s].cache_path)
        => /\ tasks[t].wrote + tasks[s].wrote <= 1
           /\ (tasks[t].pc \in {"verify_md5", "stat", "return"} /\ tasks[s].wrote = 1)
              => (Exists(tasks[t].cache_path) => disk[tasks[t].cache_path] # Truncated)
           /\ (tasks[t].pc = "done" /\ tasks[s].pc = "done")
              => /\ Exists(tasks[t].cache_path)
                 /\ calculate_md5(tasks[t].cache_path) = tasks[t].md5_sum

\* Invocations whose fetch failed, and those whose disk write failed.
FetchFailed == {t \in DOMAIN tasks : tasks[t].err = "URLError"}

WriteFailed == {t \in DOMAIN tasks : tasks[t].err = "OSError"}

\* C6: putMany over N URLs of which exactly K have a failing fetch (and no
\* disk write fails) returns exactly N-K results and logs K failures; no
\* exception escapes the call.
C6_BatchIsolation ==
    call.kind = "putMany"
    => /\ call.status # "raised"
       /\ (call.status = "returned" /\ WriteFailed = {})
          => /\ Len(call.results) = Len(call.urls) - Cardinality(FetchFailed)
             /\ call.logged = Cardinality(FetchFailed)

\* C7: during a putMany call at most max_workers invocations of put have
\* started and not yet finished.
C7_BoundedConcurrency ==
    call.kind = "putMany" => Cardinality(Running) <= call.max_workers

\* C7 witness: every worker is busy while a submitted URL still waits.
C7_Witness ==
    /\ call.kind = "putMany"
    /\ Cardinality(Running) = call.max_workers
    /\ Queued # {}

\* C8: when putMany has returned, every submitted task has succeeded or
\* failed; none is waiting or in progress.
C8_JoinAll ==
    (call.kind = "putMany" /\ call.status = "returned")
    => /\ Finished = DOMAIN tasks
       /\ Len(call.results) + call.logged = Len(call.urls)

\* C8 witness: a batch returned with one task succeeded and another failed.
C8_Witness ==
    /\ call.kind = "putMany" /\ call.status = "returned"
    /\ \E t, s \in DOMAIN tasks : tasks[t].pc = "done" /\ tasks[s].pc = "failed"

\* C9: after any sequence of extract_and_store_media calls made one after
\* another, the post_media table holds at most one row for each
\* (post_id, media_url) pair.
C9_OneRecordPerPair ==
    \A post_id \in Posts, url \in Urls : Cardinality(SelectMedia(post_id, url)) <= 1

\* C9 witness: a payload listing one URL twice was reconciled (one insert, one
\* reuse) while the table also holds a row of the other post.
C9_Witness ==
    /\ rec[1].pc = "returned" /\ rec[1].media = MediaTwice
    /\ rec[1].inserts = 1 /\ rec[1].stats.media_cached = 2
    /\ \E row \in store : row.post_id # rec[1].post_id

\* C10: re-running extract_and_store_media for the same post and payload
\* after a call in which every URL was cached makes no download and no
\* insert, and (the post_media lookups being answered) returns the same
\* media_cached with media_errors = 0, every item resolved by the lookup.
C10_ReconcileIdempotent ==
    \A r \in SeqRuns :
        rec[r].again
        => /\ rec[r].pc # "put" /\ rec[r].fetches = 0 /\ rec[r].inserts = 0
           /\ (rec[r].pc = "returned" /\ rec[r].store_errors = 0)
              => /\ rec[r].stats.media_cached = rec[r].prev_cached
                 /\ rec[r].stats.media_errors = 0
                 /\ Len(rec[r].stats.media_ids) = rec[r].stats.media_count

\* C10 witness: the gallery of two URLs reconciled again, both reused.
C10_Witness ==
    /\ rec[1].pc = "returned" /\ rec[1].again
    /\ rec[1].media = MediaGallery
    /\ rec[1].stats.media_cached = 2 /\ rec[1].prev_cached = 2
    /\ rec[1].stats.media_errors = 0

\* A step of run r in which the processing of the current media item fails:
\* the download raised (fetch or disk), or the post_media client raised
\* (lookup or insert).
ItemFails(r) ==
    \/ /\ rec[r].pc = "put" /\ tasks[r].pc = "failed"
       /\ rec'[r] # rec[r]
    \/ /\ rec[r].pc \in {"lookup", "put"}
       /\ rec'[r].store_errors = rec[r].store_errors + 1

\* C11: a failure while processing one media item of a payload (lookup, fetch,
\* disk write or insert) adds one to media_errors and nothing to
\* media_cached, and the loop goes on with the next item; no exception
\* escapes extract_and_store_media, and a call that returned has processed
\* every extracted item.
C11_PerItemIsolation ==
    /\ [](\A r \in SeqRuns :
            /\ rec[r].pc \in {"idle", "lookup", "put", "returned"}
            /\ rec[r].pc = "returned"
               => /\ rec[r].i = Len(rec[r].media_urls)
                  /\ rec[r].stats.media_cached + rec[r].stats.media_errors
                        = rec[r].stats.media_count)
    /\ [][\A r \in SeqRuns :
            ItemFails(r)
            => /\ rec'[r].stats.media_errors = rec[r].stats.media_errors + 1
               /\ rec'[r].stats.media_cached = rec[r].stats.media_cached
               /\ rec'[r].media_urls = rec[r].media_urls
               /\ IF rec[r].i < Len(rec[r].media_urls)
                  THEN rec'[r].pc = "lookup" /\ rec'[r].i = rec[r].i + 1
                  ELSE rec'[r].pc = "returned"]_vars

\* C11 witness: the download of the first gallery item failed, and the second
\* item was downloaded and inserted all the same.
C11_Witness ==
    /\ rec[1].pc = "returned" /\ rec[1].media = MediaGallery
    /\ rec[1].stats.media_errors = 1 /\ rec[1].stats.media_cached = 1
    /\ rec[1].store_errors = 0 /\ rec[1].fetches = 2 /\ rec[1].inserts = 1
    /\ SelectMedia(rec[1].post_id, UrlA) = {}
    /\ SelectMedia(rec[1].post_id, UrlB) # {}

\* C12: when a post_media row exists for (post_id, url) and the lookup is
\* answered, the item adds one to media_cached and the existing media_id to
\* media_ids, and nothing else happens: no download is started, the cache
\* tree and the table stay as they are, whether or not the file the row
\* names still exists.
C12_ExistingRecordFrame ==
    [][\A r \in SeqRuns :
          (/\ rec[r].pc = "lookup"
           /\ HasRecord(rec[r].post_id, Item(r).url)
           /\ rec'[r] # rec[r]
           /\ rec'[r].store_errors = rec[r].store_errors)
          => /\ rec'[r].stats.media_cached = rec[r].stats.media_cached + 1
             /\ rec'[r].stats.media_ids =
                   Append(rec[r].stats.media_ids,
                          FirstRow(SelectMedia(rec[r].post_id, Item(r).url)).media_id)
             /\ rec'[r].stats.media_errors = rec[r].stats.media_errors
             /\ rec'[r].pc # "put" /\ tasks' = tasks
             /\ rec'[r].fetches = rec[r].fetches
             /\ disk' = disk /\ store' = store]_vars

\* C12 witness: a call returned having reused the row of a URL whose file had
\* been deleted from the cache.
C12_Witness ==
    /\ rec[1].pc = "returned" /\ rec[1].media = MediaImage
    /\ rec[1].stats.media_cached = 1 /\ rec[1].fetches = 0
    /\ last.kind = "eviction"
    /\ \E row \in SelectMedia(rec[1].post_id, UrlA) :
          /\ row.local_file_path = last.path
          /\ ~Exists(row.local_file_path)

\* C13: a row enters post_media only in a step that follows a returned
\* download of its URL; it has ai_analysis_status 'not_started' and an
\* ai_analysis_log of exactly one entry, the 'media_downloaded' event, whose
\* details are the file_size, mime_type and md5_sum that download returned.
C13_InsertedRowShape ==
    [][\A row \in store' \ store :
          \E r \in SeqRuns :
             /\ rec[r].pc = "put" /\ tasks[r].pc = "done"
             /\ tasks[r].fetched = 1 /\ tasks[r].err = None
             /\ row.post_id = rec[r].post_id
             /\ row.media_url = Item(r).url /\ row.media_url = tasks[r].media_url
             /\ row.ai_analysis_status = "not_started"
             /\ LET log == json_loads(row.ai_analysis_log)
                IN  /\ Len(log) = 1
                    /\ log[1].event = "media_downloaded"
                    /\ log[1].details = [file_size |-> Result(r).file_size,
                                         mime_type |-> Result(r).mime_type,
                                         md5_sum   |-> Result(r).md5_sum]]_vars

\* C13 witness: the table holds the row of a download served with a
\* Content-Type and the row of one served without.
C13_Witness ==
    \E row, other \in store :
       /\ row.mime_type = "image/jpeg" /\ other.mime_type = None
       /\ json_loads(other.ai_analysis_log)[1].details.md5_sum = "d2"
       /\ json_loads(row.ai_analysis_log)[1].details.file_size = ByteLen("b1")

\* Rows of two different posts for one URL listed under one media type.
SharedRows(row, other) ==
    /\ row.post_id # other.post_id
    /\ row.media_url = other.media_url
    /\ row.media_type = other.media_type

C15_NoRetries ==
    /\ \A t \in DOMAIN tasks :
          /\ tasks[t].fetched <= 1 /\ tasks[t].wrote <= 1
          /\ tasks[t].pc \in {"done", "failed"} => tasks[t].fetched = 1
          /\ tasks[t].err # None => tasks[t].pc = "failed"
    /\ (call.kind = "putMany" /\ call.status = "returned")
       => /\ Len(tasks) = Len(call.urls)
          /\ \A t \in DOMAIN tasks : tasks[t].fetched = 1
    /\ ReconcileMode
       => \A r \in SeqRuns :
             /\ rec[r].fetches + tasks[r].fetched <= rec[r].i
             /\ rec[r].pc = "returned" => rec[r].fetches <= rec[r].stats.media_count

\* C15 witness: a batch returned in which one fetch failed and one write failed.
C15_Witness ==
    /\ call.kind = "putMany" /\ call.status = "returned"
    /\ \E t, s \in DOMAIN tasks :
          /\ tasks[t].err = "URLError" /\ tasks[t].fetched = 1
          /\ tasks[s].err = "OSError" /\ tasks[s].fetched = 1 /\ tasks[s].wrote = 1

\* The posts of the input that carry a URN.
PostsWithUrn ==
    UNION {{<<f, j>> : j \in {k \in DOMAIN call.files[f] : call.files[f][k].urn # None}} :
              f \in DOMAIN call.files}

\* C16: while import_directory handles the media of a post, whatever fails
\* (a media item, or extract_and_store_media as a whole), 'errors' is not
\* incremented and the import goes on to insert the data_downloads row of
\* that post; a run in which no file, posts or data_downloads operation
\* failed gets a data_downloads row for every post with a URN, counts as
\* errors only the posts without URN, and when every post has a URN is
\* recorded as 'completed', whatever media_errors is.
C16_MediaFailuresNotFatal ==
    /\ [][ImportAt("media")
            => /\ call'.stats.errors = call.stats.errors
               /\ call'.pc \in {"media", "download_row"}
               /\ call'.f = call.f /\ call'.j = call.j
               /\ call'.status = "running"]_vars
    /\ []((call.kind = "import" /\ call.status = "completed" /\ call.db_faults = 0)
          => /\ \A fj \in PostsWithUrn :
                   \E row \in call.downloads : row.f = fj[1] /\ row.j = fj[2]
             /\ call.stats.errors = call.stats.processed - Cardinality(PostsWithUrn)
             /\ call.stats.errors = 0 => call.run_status = "completed")

\* C16 witness: a run over a post whose media is malformed and a post whose
\* media downloads failed is recorded as completed, with both data_downloads
\* rows inserted.
C16_Witness ==
    /\ call.kind = "import" /\ call.status = "completed"
    /\ call.run_status = "completed"
    /\ call.files = << <<PostBad, PostA>> >>
    /\ call.stats.media_errors = 2 /\ call.stats.errors = 0
    /\ Cardinality(call.downloads) = 2

\* A direct call without media_type argument has resolved type and extension.
Detected ==
    /\ call.kind = "put" /\ call.media_type = None
    /\ tasks[1].md5_sum # None

\* C17: when the Content-Type of the response is image/png (and no media_type
\* is passed), the resulting media type is image and the resulting extension
\* is .png, for any URL.
C17_PngContentType ==
    (Detected /\ tasks[1].mime_type = "image/png")
    => /\ tasks[1].media_type = "image"
       /\ tasks[1].extension = ".png"

\* The URL holds the token .mp4, in its path or outside it.
HasMp4(url) == PathHas(url.path, ".mp4") \/ PathHas(url.query, ".mp4")

\* The keys EXT_TO_MEDIA_TYPE lists before .mp4.
KeysBeforeMp4 == {".jpg", ".jpeg", ".png", ".gif", ".webp"}

\* C18 as stated: for any URL that holds the token .mp4 (also beside another
\* known token, also outside the path), served without Content-Type, the
\* media type is video and the extension .mp4.
C18_Mp4Anywhere ==
    (Detected /\ tasks[1].mime_type = None /\ HasMp4(tasks[1].media_url))
    => /\ tasks[1].media_type = "video"
       /\ tasks[1].extension = ".mp4"

\* C18 as amended: for any URL whose path holds the token .mp4 (in any
\* letter case) and none of the tokens listed before it (.jpg .jpeg .png
\* .gif .webp), served without Content-Type, the media type is video and the
\* extension .mp4, whatever later-listed token the path and whatever the
\* query hold; a URL that holds .mp4 only outside its path gets the type and
\* extension it would get without it.
C18_Mp4InPath ==
    (Detected /\ tasks[1].mime_type = None)
    => LET url == tasks[1].media_url
       IN  /\ (/\ PathHas(url.path, ".mp4")
               /\ \A k \in KeysBeforeMp4 : ~PathHas(url.path, k))
              => /\ tasks[1].media_type = "video"
                 /\ tasks[1].extension = ".mp4"
           /\ (\A i \in 1..Len(EXT_KEYS) : ~PathHas(url.path, EXT_KEYS[i]))
              => /\ tasks[1].media_type = "image"
                 /\ tasks[1].extension = ".bin"

\* C18 witness: a returned download of a URL whose path holds .MP4 and .pdf
\* and whose query holds .mp4, served without Content-Type.
C18_Witness ==
    /\ Detected /\ call.status = "returned"
    /\ tasks[1].media_url.path = <<"/raw", ".mp4", ".pdf">>
    /\ tasks[1].media_url.query = <<".mp4">>
    /\ tasks[1].media_type = "video"

\* The media types of the known extension tokens of a path.
PathTypes(url) ==
    {EXT_TO_MEDIA_TYPE[EXT_KEYS[i]] :
        i \in {k \in 1..Len(EXT_KEYS) : PathHas(url.path, EXT_KEYS[k])}}

\* C19: the media type of a download is the media_type argument when one is
\* passed; else the MIME table's entry for the Content-Type when it has one,
\* whatever the URL; else the type of a known extension token of the URL
\* path; else image, with extension .bin, and then the call fails only if
\* the fetch or the disk does.
C19_ClassPriority ==
    (call.kind = "put" /\ tasks[1].md5_sum # None)
    => LET url  == tasks[1].media_url
           mime == tasks[1].mime_type
       IN  IF call.media_type # None
           THEN tasks[1].media_type = call.media_type
           ELSE IF mime \in DOMAIN MIME_TO_MEDIA_TYPE
           THEN tasks[1].media_type = MIME_TO_MEDIA_TYPE[mime]
           ELSE IF PathTypes(url) # {}
           THEN tasks[1].media_type \in PathTypes(url)
           ELSE /\ tasks[1].media_type = "image"
                /\ tasks[1].extension = ".bin"
                /\ tasks[1].err \in {None, "OSError"}

\* C19 witness: a URL without known token in its path, served with a
\* Content-Type outside the MIME table, was stored as an image with
\* extension .bin and the call returned.
C19_Witness ==
    /\ call.kind = "put" /\ call.status = "returned" /\ call.media_type = None
    /\ tasks[1].mime_type = "text/html"
    /\ tasks[1].media_url.path = <<"/html">>
    /\ tasks[1].cache_path = [dir |-> "images", md5 |-> "d1", ext |-> ".bin"]
    /\ Exists(tasks[1].cache_path)

\* The names hash(url) gives to the files of the URLs.
LegacyNames == {UrlMd5(url) : url \in Urls}

\* C20: when the lookup by digest of the verify command reports "not found",
\* no file stored under a legacy hash(url) name holds bytes of that digest:
\* the legacy files were scanned before the report.
C20_LegacyFallback ==
    (call.kind = "verify" /\ call.status = "returned" /\ call.printed = "not found")
    => ~\E path \in DOMAIN disk :
           /\ path.md5 \in LegacyNames
           /\ calculate_md5(path) = call.md5_sum

\* C21: a put (not concurrent with another) that finds at the computed path a
\* file hashing to the digest of the fetched bytes writes, truncates and
\* deletes nothing: the cache tree stays as it was when the call started;
\* and the md5_sum, local_path and file_size it returns are those a write of
\* the same bytes returns.
C21_HitIsNoOp ==
    (/\ call.kind = "put" /\ tasks[1].md5_sum # None
     /\ tasks[1].cache_path \in DOMAIN disk0
     /\ calculate_md5_from_bytes(disk0[tasks[1].cache_path]) = tasks[1].md5_sum)
    => /\ disk = disk0
       /\ tasks[1].wrote = 0 /\ tasks[1].unlinked = 0
       /\ tasks[1].err = None
       /\ call.status = "returned"
          => /\ tasks[1].hit
             /\ call.results[1].md5_sum = calculate_md5_from_bytes(tasks[1].data)
             /\ call.results[1].local_path =
                   get_media_cache_path(tasks[1].media_type, tasks[1].md5_sum,
                                        tasks[1].extension)
             /\ call.results[1].file_size = ByteLen(tasks[1].data)

\* C21 witness: a call with the video hint returned as a hit on a tree that
\* holds another file as well.
C21_Witness ==
    /\ call.kind = "put" /\ call.status = "returned" /\ tasks[1].hit
    /\ call.media_type = "video"
    /\ Cardinality(DOMAIN disk) >= 2
    /\ disk = disk0

\* C22: a put whose fetch fails raises the error to its caller and leaves
\* the cache tree as it was when the call started: it has opened and
\* unlinked no file.
C22_FailedFetchFrame ==
    (call.kind = "put" /\ tasks[1].err = "URLError")
    => /\ disk = disk0
       /\ tasks[1].wrote = 0 /\ tasks[1].unlinked = 0
       /\ tasks[1].pc = "failed"
       /\ call.status \in {"running", "raised"}

\* C22 witness: the fetch of a call failed while the cache held the file of
\* the URL in a mutated state, and the call raised.
C22_Witness ==
    /\ call.kind = "put" /\ call.status = "raised"
    /\ tasks[1].err = "URLError"
    /\ last.kind = "mutation" /\ disk = disk0
    /\ disk[last.path] = Junk

\* C23: cached files are immutable and never lost: no step of the subsystem
\* deletes or changes a file whose bytes hash to the digest in its name.
C23_CachedFilesImmutable ==
    [][\A p \in DOMAIN disk :
          calculate_md5(p) = p.md5 => (p \in DOMAIN disk' /\ disk'[p] = disk[p])]_vars

\* Media items of the current call of run r whose iteration has ended.
ItemsDone(r) ==
    CASE rec[r].pc = "returned"         -> rec[r].i
      [] rec[r].pc \in {"lookup", "put"} -> rec[r].i - 1
      [] OTHER                          -> 0

\* C24: within a call of extract_and_store_media every extracted URL ends as
\* cached or as failed, never both and never neither: media_cached +
\* media_errors counts the items processed so far, media_ids has one entry
\* per cached item, and at the return media_cached + media_errors =
\* media_count.
C24_CachedOrFailed ==
    \A r \in SeqRuns :
        /\ rec[r].stats.media_cached + rec[r].stats.media_errors = ItemsDone(r)
        /\ Len(rec[r].stats.media_ids) = rec[r].stats.media_cached
        /\ rec[r].pc = "returned"
           => /\ ItemsDone(r) = rec[r].stats.media_count
              /\ rec[r].stats.media_count = Len(rec[r].media_urls)

\* C24 witness: of a payload of two items, the insert of one failed after
\* its download and the other was stored.
C24_Witness ==
    /\ rec[1].pc = "returned" /\ rec[1].stats.media_count = 2
    /\ rec[1].stats.media_errors = 1 /\ rec[1].store_errors = 1
    /\ rec[1].fetches = 2
    /\ Len(rec[1].stats.media_ids) = 1

\* The positions of the gallery entries that have a url.
WithUrl(media) == {k \in DOMAIN media.images : media.images[k].url # NoUrl}

\* media_urls lists the urls of the gallery entries that have one, in the
\* order of the gallery, each as an image.
GalleryListed(media, media_urls) ==
    /\ Len(media_urls) = Cardinality(WithUrl(media))
    /\ \E f \in [DOMAIN media_urls -> WithUrl(media)] :
          /\ \A j, k \in DOMAIN media_urls : j < k => f[j] < f[k]
          /\ \A k \in DOMAIN media_urls :
                media_urls[k] = [url |-> media.images[f[k]].url, type |-> "image"]

\* C25: extraction of the media items of a payload: type image with a url
\* gives that url as an image, type images one item per gallery entry that
\* has a url, type video with a url that url as a video; a payload without
\* type or with any other type gives none; media_count is the number of
\* items, and a call without items returns without a post_media lookup, a
\* download or an insert.
C25_UrlExtraction ==
    \A r \in SeqRuns :
        rec[r].pc # "idle"
        => LET media      == rec[r].media
               media_urls == rec[r].media_urls
           IN  /\ (media.type = "image" /\ media.url # NoUrl)
                  => media_urls = <<[url |-> media.url, type |-> "image"]>>
               /\ (media.type = "video" /\ media.url # NoUrl)
                  => media_urls = <<[url |-> media.url, type |-> "video"]>>
               /\ media.type = "images" => GalleryListed(media, media_urls)
               /\ media.type \notin {"image", "images", "video"} => media_urls = <<>>
               /\ rec[r].stats.media_count = Len(media_urls)
               /\ media_urls = <<>>
                  => /\ rec[r].pc = "returned" /\ rec[r].i = 0
                     /\ rec[r].stats = NoRec.stats
                     /\ rec[r].fetches = 0 /\ rec[r].inserts = 0
                     /\ rec[r].store_errors = 0
                     /\ tasks[r] = IdleTask

\* C25 witness: a payload without type that carries a url returned without
\* items while the table holds a row for its post and that url, stored by an
\* earlier call whose payload listed the url.
C25_Witness ==
    /\ rec[1].pc = "returned" /\ rec[1].media = MediaNoType
    /\ rec[1].stats.media_count = 0
    /\ SelectMedia(rec[1].post_id, UrlA) # {}

\* C26: when two runs process the same (post_id, media_url) at the same
\* time, post_media still never holds two rows for that pair.
C26_OneRecordUnderRuns ==
    \A row, other \in store :
        (row.post_id = other.post_id /\ row.media_url = other.media_url) => row = other

\* C27: in a download_multiple_media call an invocation fails only by its
\* own fetch or its own disk write: a task whose fetch succeeded and whose
\* open and write did not fail ends in the result list, also when another
\* task resolves to the same cache path and a mutated file is at that path
\* when the batch starts.
C27_NoSiblingFailure ==
    call.kind = "putMany"
    => /\ \A t \in DOMAIN tasks :
            tasks[t].pc = "failed" => tasks[t].err \in {"URLError", "OSError"}
       /\ call.status = "returned"
          => Len(call.results)
                = Cardinality({t \in DOMAIN tasks : tasks[t].err = None})

\* The media type each directory of the cache tree is the directory of.
ClassOfDir == [d \in {CACHE_DIRS[c] : c \in DOMAIN CACHE_DIRS} |->
                 CHOOSE c \in DOMAIN CACHE_DIRS : CACHE_DIRS[c] = d]

\* C28: for every download_and_cache_media call that returns, whatever the
\* media_type argument (also one outside image, video, document), the path
\* returned is <directory of the returned media_type>/<md5_sum><extension>:
\* the media_type of the result and the directory of the file agree.
C28_ClassDirAgree ==
    (call.kind = "put" /\ call.status = "returned")
    => LET result == call.results[1]
       IN  /\ result.local_path.md5 = result.md5_sum
           /\ result.local_path.ext = result.extension
           /\ ClassOfDir[result.local_path.dir] = result.media_type

\* Every URL of the payload passed again and again has exactly one row.
AllRecorded ==
    \A k \in DOMAIN ExtractUrls(RetryPayload) :
        Cardinality(SelectMedia(RetryPost, ExtractUrls(RetryPayload)[k].url)) = 1

\* A download is started for the media item the loop is at.
StartsFetch ==
    /\ tasks[1].pc # "download" /\ tasks'[1].pc = "download"
    /\ tasks'[1].media_url = Item(1).url
    /\ tasks'[1].fetched = 0

\* C29: a media item that failed in one extract_and_store_media call (fetch,
\* disk write or insert) leaves no post_media row; a call for the same post
\* and payload starts a download for an item exactly when its lookup is
\* answered and finds no row, and for no item that has a row; and once
\* failures have stopped, repeated calls lead to a state where every URL of
\* the payload has exactly one row.
C29_FailedIsRetried ==
    /\ [][ItemFails(1) => store' = store]_vars
    /\ [][/\ (tasks'[1].pc = "download" /\ tasks[1].pc # "download")
             => /\ rec[1].pc = "lookup" /\ StartsFetch
                /\ SelectMedia(rec[1].post_id, Item(1).url) = {}
          /\ (/\ rec[1].pc = "lookup" /\ rec'[1] # rec[1]
              /\ rec'[1].store_errors = rec[1].store_errors)
             => IF SelectMedia(rec[1].post_id, Item(1).url) = {}
                THEN StartsFetch
                ELSE tasks' = tasks /\ store' = store]_vars
    /\ (last.kind = "calm") ~> AllRecorded
    /\ [](AllRecorded => [](AllRecorded))

\* C29 witness: after the failures stopped, a call found the row of the
\* second gallery item and none of the first, whose earlier processing had
\* failed, downloaded and stored the first only, and every URL has its row.
C29_Witness ==
    /\ last.kind = "calm" /\ AllRecorded
    /\ rec[1].pc = "returned" /\ rec[1].stats.media_cached = 2
    /\ rec[1].fetches = 1 /\ rec[1].inserts = 1
    /\ rec[1].stats.media_ids[1].media_url = UrlA
    /\ rec[1].stats.media_ids[1].n = 1

\* The client.send calls made for a message.
SendsOf(message) == {snd \in call.sends : snd.message = message}

\* The handler of the sender has finished the broadcast of the message.
Broadcast(message) == call.handler[message.sender].message # message

\* C30: every message received from a client is sent to each other client
\* that was in connected_clients when it was received, once to each, and
\* never to its sender or to anyone else; a recipient whose connection has
\* closed does not stop the broadcast: when it is over a send was made to
\* every such client, and it succeeded for every one whose connection is
\* still open.
C30_RelayToOthers ==
    call.kind = "ws"
    => \A r \in call.receipts :
          LET others == r.connected_clients \ {r.message.sender}
          IN  /\ r.message.sender \in r.connected_clients
              /\ \A snd \in SendsOf(r.message) :
                    snd.client \in others /\ snd.client # r.message.sender
              /\ \A snd, other \in SendsOf(r.message) :
                    snd.client = other.client => snd = other
              /\ Broadcast(r.message)
                 => /\ {snd.client : snd \in SendsOf(r.message)} = others
                    /\ \A client \in others \cap call.open :
                          [message |-> r.message, client |-> client, ok |-> TRUE]
                             \in call.sends

\* C30 witness: a message was received while two other clients were
\* connected; the send to one of them found its connection closed, and the
\* other received the message after that.
C30_Witness ==
    /\ call.kind = "ws"
    /\ \E r \in call.receipts :
          /\ Cardinality(r.connected_clients) = 3
          /\ Broadcast(r.message)
          /\ \E snd, other \in SendsOf(r.message) :
                /\ ~snd.ok /\ other.ok
                /\ other.client \in call.open

====
